---------------------------- MODULE Spec2Model ----------------------------
(* A model of the Auto-Clicker capture filter (ActionRecorder) and replay   *)
(* scheduler (ActionReplayer) of src/automation.py, and of the window that  *)
(* drives them with buttons and hotkeys (AutomationGUI) of                  *)
(* src/automation_gui.py.                                                   *)
(*                                                                          *)
(* Threads.  pynput runs every Listener in a thread of its own, so the      *)
(* pointer callbacks, the key callbacks and the caller of start_recording / *)
(* stop_recording interleave.  A callback is cut where another thread can   *)
(* observe or disturb it: between reading the clock and appending to the    *)
(* log, and between the three statements of the F9 branch.                  *)
(*                                                                          *)
(* Time.  Timestamps are integers.  In the recorder `now` is the last value *)
(* time.time() - start_time returned; a clock read returns any value from   *)
(* `now` upward (the clock is taken to be monotone).  In the replayer one   *)
(* unit is 50 ms, so chunk_size (0.1 s) is 2 units and the pause between    *)
(* iterations (0.5 s) is 10 units.                                          *)
EXTENDS Integers, Sequences, FiniteSets

\* ------------------------------------------------------------------ bounds
\* Key events delivered to the key callbacks in a session of Spec.
MaxKeyEvents == 2
\* Pointer events delivered to the pointer callbacks in a session.
MaxMouseEvents == 1
\* Largest value the recorder's clock reaches.
MaxTime == 1
\* Key events delivered in a session of SpecAltTab, beside those of the first
\* Alt+Tab when the session opens with one.
MaxModEvents == 3

\* Events in a replayed log.
MaxLogLen == 2
\* Longest gap between two consecutive events of a replayed log, in units.
MaxGap == 5
\* Largest repeat_count and largest delay_before_start (in units) of a replay.
MaxRepeat == 3
MaxDelay == 3

\* ------------------------------------------------------- program constants
\* chunk_size = 0.1 (seconds) and time.sleep(0.5), in units of 50 ms.
chunk_size == 2
IterationPause == 10

\* ------------------------------------------------------------ key identities
\* pynput key identities, by name.  A key with a printable character is a
\* KeyCode whose .char is the character; the others are members of Key.
CharKeys == {"a", "q", "Q", "w"}
ShiftKeys == {"shift", "shift_l", "shift_r"}
AltKeys == {"alt", "alt_l", "alt_r"}

\* The keys the environment presses in Spec and in SpecAltTab, and those it
\* presses and releases while the GUI runs.
AllKeys == {"f9", "esc", "shift", "alt_l", "tab", "a"}
ModKeys == {"shift", "alt_l", "tab"}
FillerKeys == {"a"}
GuiKeys == {"shift", "alt_l", "Q", "w", "f9"}
GuiReleasedKeys == {"shift"}
MouseTypes == {"mouse_move", "mouse_click", "mouse_scroll"}

\* A KeyCode that has a virtual key code and no character (a key of the
\* numeric keypad, say): its .char is None.
VkKeys == {"<96>"}

\* Python's None, as a key symbol and as what _parse_key returns.
NoKey == "<None>"

\* key.char for a KeyCode (None when it has no character), str(key)
\* ('Key.<name>') for a member of Key, which has no .char.
KeyStr(key) ==
    IF key \in CharKeys THEN key
    ELSE IF key \in VkKeys THEN NoKey
    ELSE "Key." \o key

\* 'alt' in key_str.lower() or key_str in ['Key.alt', 'Key.alt_l', 'Key.alt_r']
HasAlt(key_str) == key_str \in {"Key.alt", "Key.alt_l", "Key.alt_r", "Key.alt_gr"}

VARIABLES
    \* ActionRecorder fields
    actions, recording, shift_pressed, alt_pressed, auto_saved,
    first_alt_tab_skipped, skipping_first_alt_tab,
    mouse_listener, keyboard_listener,
    \* the recorder's clock and the two callback threads
    now, kpc, kEvt, mpc, mEvt,
    \* the caller: "constructed", "started" (start_recording ran), "stopped",
    \* and in main() "manual_save" or "exit" after that
    phase,
    \* observers: the key events the key callbacks handled while recording
    \* and the shift, alt and Tab events among them, the number of pointer
    \* events handled, what auto_save_callback was given (and how often),
    \* what stop_recording returned
    delivered, mods, nMouse, cbLog, cbCount, retLog

recVars == <<actions, recording, shift_pressed, alt_pressed, auto_saved,
             first_alt_tab_skipped, skipping_first_alt_tab,
             mouse_listener, keyboard_listener, now, kpc, kEvt, mpc, mEvt,
             phase, delivered, mods, nMouse, cbLog, cbCount, retLog>>

VARIABLES
    \* ActionReplayer fields
    replaying, stop_replay, replay_listener,
    \* the arguments of replay() and its locals
    rlog, repeat_count, delay_before_start,
    iteration, idx, last_action_time, wait_time, waited, sleep_time,
    \* where replay() is, and what is left of the time.sleep() it is in
    rpc, sleep_left,
    \* observers: the events handed to _execute_action and the pauses between
    \* iterations, in order; where replay() was when cancellation was first
    \* requested, how much it had done by then and how long it slept since;
    \* how long the startup sleep lasted; the controller calls made
    trace, cancel_at, done_at_cancel, since_cancel, startup_slept, injected,
    \* what replay() returned: <<>> for None, <<n>> for a number n
    returned,
    \* observer: the lengths of the time.sleep() calls of the wait loop
    slices

repVars == <<replaying, stop_replay, replay_listener, rlog, repeat_count,
             delay_before_start, iteration, idx, last_action_time, wait_time,
             waited, sleep_time, rpc, sleep_left, trace, cancel_at,
             done_at_cancel, since_cancel, startup_slept, injected,
             returned, slices>>

VARIABLES
    \* AutomationGUI fields
    is_recording, is_replaying, hotkey_shift_pressed, hotkey_alt_pressed,
    loaded_actions,
    \* the callbacks root.after(0, ...) has queued for the Tk thread, oldest
    \* first
    tkq,
    \* record_thread and replay_thread ("none", "spawned", then "poll" or
    \* "running"), and the numbers replay_thread was created with
    rth, pth, repeat_arg, delay_arg,
    \* whether the replayer's listener has an F9 press still to handle
    rep_in,
    \* observers: the key events the user has typed; who called the
    \* stop_recording that asked whether to save ("none" when none did);
    \* whether a key press that made the hotkey listener request a toggle went
    \* on to be recorded
    typed, save_prompt, chord_logged

guiFlags == <<is_recording, is_replaying, loaded_actions, save_prompt>>
hkVars == <<hotkey_shift_pressed, hotkey_alt_pressed>>
thrVars == <<rth, pth, repeat_arg, delay_arg>>
inVars == <<rep_in, typed, chord_logged>>
guiVars == <<guiFlags, hkVars, thrVars, inVars, tkq>>

vars == <<recVars, repVars, guiVars>>

NoEvt == [type |-> "none", key |-> "", time |-> 0]

\* ActionRecorder.__init__
RecInit ==
    /\ actions = <<>>
    /\ recording = FALSE
    /\ shift_pressed = FALSE
    /\ alt_pressed = FALSE
    /\ auto_saved = FALSE
    /\ first_alt_tab_skipped = FALSE
    /\ skipping_first_alt_tab = FALSE
    /\ mouse_listener = FALSE
    /\ keyboard_listener = FALSE
    /\ now = 0
    /\ kpc = "idle"
    /\ kEvt = NoEvt
    /\ mpc = "idle"
    /\ mEvt = NoEvt
    /\ phase = "constructed"
    /\ delivered = <<>>
    /\ mods = <<>>
    /\ nMouse = 0
    /\ cbLog = <<>>
    /\ cbCount = 0
    /\ retLog = <<>>

\* ActionReplayer.__init__
RepInit ==
    /\ replaying = FALSE
    /\ stop_replay = FALSE
    /\ replay_listener = FALSE
    /\ rlog = <<>>
    /\ repeat_count = 0
    /\ delay_before_start = 0
    /\ iteration = 0
    /\ idx = 0
    /\ last_action_time = 0
    /\ wait_time = 0
    /\ waited = 0
    /\ sleep_time = 0
    /\ rpc = "init"
    /\ sleep_left = 0
    /\ trace = <<>>
    /\ cancel_at = "none"
    /\ done_at_cancel = 0
    /\ since_cancel = 0
    /\ startup_slept = 0
    /\ injected = <<>>
    /\ returned = <<>>
    /\ slices = <<>>

\* ActionRecorder.start_recording
StartRecording ==
    /\ UNCHANGED repVars
    /\ phase = "constructed"
    /\ actions' = <<>>
    /\ now' = 0
    /\ recording' = TRUE
    /\ mouse_listener' = TRUE
    /\ keyboard_listener' = TRUE
    /\ phase' = "started"
    /\ UNCHANGED <<shift_pressed, alt_pressed, auto_saved, first_alt_tab_skipped,
                   skipping_first_alt_tab, kpc, kEvt, mpc, mEvt,
                   delivered, mods, nMouse, cbLog, cbCount, retLog>>

\* ActionRecorder.stop_recording.  Listener.stop() does not interrupt a
\* callback that is already running.
StopRecording ==
    /\ UNCHANGED repVars
    /\ phase = "started"
    /\ recording' = FALSE
    /\ mouse_listener' = FALSE
    /\ keyboard_listener' = FALSE
    /\ retLog' = actions
    /\ phase' = "stopped"
    /\ UNCHANGED <<actions, shift_pressed, alt_pressed, auto_saved,
                   first_alt_tab_skipped, skipping_first_alt_tab, now,
                   kpc, kEvt, mpc, mEvt, delivered, mods, nMouse, cbLog, cbCount>>

\* _on_mouse_move / _on_mouse_click / _on_mouse_scroll up to the clock read:
\* `if self.recording: elapsed = time.time() - self.start_time`.
MouseBegin(type, T) ==
    /\ UNCHANGED repVars
    /\ mouse_listener
    /\ mpc = "idle"
    /\ recording
    /\ \E t \in T :
         /\ now' = t
         /\ mEvt' = [type |-> type, key |-> "", time |-> t]
    /\ mpc' = "append"
    /\ nMouse' = nMouse + 1
    /\ UNCHANGED <<actions, recording, shift_pressed, alt_pressed, auto_saved,
                   first_alt_tab_skipped, skipping_first_alt_tab,
                   mouse_listener, keyboard_listener, kpc, kEvt, phase,
                   delivered, mods, cbLog, cbCount, retLog>>

\* self.actions.append({...}) of a pointer callback
MouseAppend ==
    /\ UNCHANGED repVars
    /\ mpc = "append"
    /\ actions' = Append(actions, mEvt)
    /\ mpc' = "idle"
    /\ mEvt' = NoEvt
    /\ UNCHANGED <<recording, shift_pressed, alt_pressed, auto_saved,
                   first_alt_tab_skipped, skipping_first_alt_tab,
                   mouse_listener, keyboard_listener, now, kpc, kEvt, phase,
                   delivered, mods, nMouse, cbLog, cbCount, retLog>>

\* The index of the most recent key event of the log whose symbol denotes an
\* alt variant, 0 when there is none (the backward scan of _on_key_press).
LastAltIndex(log) ==
    LET hits == {i \in 1..Len(log) :
                    /\ log[i].type \in {"key_press", "key_release"}
                    /\ HasAlt(log[i].key)}
    IN IF hits = {} THEN 0 ELSE CHOOSE i \in hits : \A j \in hits : j <= i

RemoveAt(log, i) ==
    [j \in 1..(Len(log) - 1) |-> IF j < i THEN log[j] ELSE log[j + 1]]

\* A faulty scan that finds nothing.
RemoveMostRecentAltNever(log) == log

\* A faulty scan that stops at the tail of the log, whatever it holds.
RemoveTail(log) == IF log = <<>> THEN log ELSE RemoveAt(log, Len(log))

\* for i in range(len(self.actions) - 1, -1, -1): ... self.actions.pop(i); break
RemoveMostRecentAlt(log) ==
    IF LastAltIndex(log) = 0 THEN log ELSE RemoveAt(log, LastAltIndex(log))

\* A faulty guard that discards Shift+Alt+Tab only once the first Alt+Tab
\* has been skipped.
IsShiftAltTabOnce(key) ==
    key = "tab" /\ shift_pressed /\ alt_pressed /\ first_alt_tab_skipped

\* The shift, alt and Tab events handled, once event e has been.
ModEventsAfter(e) ==
    IF e[2] \in ShiftKeys \cup AltKeys \cup {"tab"} THEN Append(mods, e) ELSE mods

\* key == Key.tab and self.shift_pressed and self.alt_pressed
IsShiftAltTab(key) == key = "tab" /\ shift_pressed /\ alt_pressed

\* key == Key.tab and self.alt_pressed and not self.shift_pressed
IsAltTab(key) == key = "tab" /\ alt_pressed /\ ~shift_pressed

\* _on_key_press up to the clock read.  Tab changes no modifier flag, so the
\* Alt+Tab rules read the flags as they were before the event.
KeyPressBegin(key, T) ==
    /\ UNCHANGED repVars
    /\ keyboard_listener
    /\ kpc = "idle"
    /\ recording
    /\ delivered' = Append(delivered, <<"press", key>>)
    /\ mods' = ModEventsAfter(<<"press", key>>)
    /\ IF key = "f9"
       THEN \* self.recording = False; the callback follows
            /\ recording' = FALSE
            /\ kpc' = "f9_callback"
            /\ UNCHANGED <<actions, shift_pressed, alt_pressed,
                           first_alt_tab_skipped, skipping_first_alt_tab,
                           keyboard_listener, now, kEvt>>
       ELSE IF key = "esc"
       THEN \* return False: pynput stops the keyboard listener
            /\ keyboard_listener' = FALSE
            /\ UNCHANGED <<actions, recording, shift_pressed, alt_pressed,
                           first_alt_tab_skipped, skipping_first_alt_tab,
                           now, kpc, kEvt>>
       ELSE IF IsAltTab(key) /\ ~first_alt_tab_skipped
       THEN /\ first_alt_tab_skipped' = TRUE
            /\ skipping_first_alt_tab' = TRUE
            /\ actions' = RemoveMostRecentAlt(actions)
            /\ UNCHANGED <<recording, shift_pressed, alt_pressed,
                           keyboard_listener, now, kpc, kEvt>>
       ELSE IF IsShiftAltTab(key)
       THEN UNCHANGED <<actions, recording, shift_pressed, alt_pressed,
                        first_alt_tab_skipped, skipping_first_alt_tab,
                        keyboard_listener, now, kpc, kEvt>>
       ELSE /\ shift_pressed' = (shift_pressed \/ key \in ShiftKeys)
            /\ alt_pressed' = (alt_pressed \/ key \in AltKeys)
            /\ \E t \in T :
                 /\ now' = t
                 /\ kEvt' = [type |-> "key_press", key |-> KeyStr(key), time |-> t]
            /\ kpc' = "append"
            /\ UNCHANGED <<actions, recording, first_alt_tab_skipped,
                           skipping_first_alt_tab, keyboard_listener>>
    /\ UNCHANGED <<auto_saved, mouse_listener, mpc, mEvt, phase, nMouse,
                   cbLog, cbCount, retLog>>

\* self.auto_save_callback(self.actions): the callback saves the log as it
\* is at this moment.
KeyF9Callback ==
    /\ UNCHANGED repVars
    /\ kpc = "f9_callback"
    /\ cbLog' = actions
    /\ cbCount' = cbCount + 1
    /\ kpc' = "f9_saved"
    /\ UNCHANGED <<actions, recording, shift_pressed, alt_pressed, auto_saved,
                   first_alt_tab_skipped, skipping_first_alt_tab,
                   mouse_listener, keyboard_listener, now, kEvt, mpc, mEvt,
                   phase, delivered, mods, nMouse, retLog>>

\* self.auto_saved = True; return False
KeyF9Saved ==
    /\ UNCHANGED repVars
    /\ kpc = "f9_saved"
    /\ auto_saved' = TRUE
    /\ keyboard_listener' = FALSE
    /\ kpc' = "idle"
    /\ UNCHANGED <<actions, recording, shift_pressed, alt_pressed,
                   first_alt_tab_skipped, skipping_first_alt_tab,
                   mouse_listener, now, kEvt, mpc, mEvt, phase, delivered, mods,
                   nMouse, cbLog, cbCount, retLog>>

\* _on_key_release up to the clock read
KeyReleaseBegin(key, T) ==
    /\ UNCHANGED repVars
    /\ keyboard_listener
    /\ kpc = "idle"
    /\ recording
    /\ delivered' = Append(delivered, <<"release", key>>)
    /\ mods' = ModEventsAfter(<<"release", key>>)
    /\ IF IsAltTab(key) /\ skipping_first_alt_tab
       THEN UNCHANGED <<shift_pressed, alt_pressed, skipping_first_alt_tab,
                        now, kpc, kEvt>>
       ELSE IF IsShiftAltTab(key)
       THEN UNCHANGED <<shift_pressed, alt_pressed, skipping_first_alt_tab,
                        now, kpc, kEvt>>
       ELSE IF key \in AltKeys /\ skipping_first_alt_tab
       THEN /\ alt_pressed' = FALSE
            /\ skipping_first_alt_tab' = FALSE
            /\ UNCHANGED <<shift_pressed, now, kpc, kEvt>>
       ELSE /\ shift_pressed' = (shift_pressed /\ key \notin ShiftKeys)
            /\ alt_pressed' = (alt_pressed /\ key \notin AltKeys)
            /\ \E t \in T :
                 /\ now' = t
                 /\ kEvt' = [type |-> "key_release", key |-> KeyStr(key), time |-> t]
            /\ kpc' = "append"
            /\ UNCHANGED skipping_first_alt_tab
    /\ UNCHANGED <<actions, recording, auto_saved, first_alt_tab_skipped,
                   mouse_listener, keyboard_listener, mpc, mEvt, phase,
                   nMouse, cbLog, cbCount, retLog>>

\* self.actions.append({...}) of a key callback
KeyAppend ==
    /\ UNCHANGED repVars
    /\ kpc = "append"
    /\ actions' = Append(actions, kEvt)
    /\ kpc' = "idle"
    /\ kEvt' = NoEvt
    /\ UNCHANGED <<recording, shift_pressed, alt_pressed, auto_saved,
                   first_alt_tab_skipped, skipping_first_alt_tab,
                   mouse_listener, keyboard_listener, now, mpc, mEvt, phase,
                   delivered, mods, nMouse, cbLog, cbCount, retLog>>

\* What a clock read may return.
Clock == now..MaxTime

\* AutomationGUI.__init__
GuiInit ==
    /\ is_recording = FALSE
    /\ is_replaying = FALSE
    /\ hotkey_shift_pressed = FALSE
    /\ hotkey_alt_pressed = FALSE
    /\ loaded_actions = <<>>
    /\ tkq = <<>>
    /\ rth = "none"
    /\ pth = "none"
    /\ repeat_arg = 0
    /\ delay_arg = 0
    /\ rep_in = FALSE
    /\ typed = <<>>
    /\ save_prompt = "none"
    /\ chord_logged = FALSE

Init == RecInit /\ RepInit /\ GuiInit

\* A capture session under arbitrary input: any key of AllKeys pressed or
\* released, any pointer event, the caller stopping at any moment.
Next ==
    \/ StartRecording /\ UNCHANGED guiVars
    \/ StopRecording /\ UNCHANGED guiVars
    \/ \E type \in MouseTypes :
          /\ nMouse < MaxMouseEvents
          /\ MouseBegin(type, Clock)
          /\ UNCHANGED guiVars
    \/ MouseAppend /\ UNCHANGED guiVars
    \/ \E key \in AllKeys :
          /\ Len(delivered) < MaxKeyEvents
          /\ KeyPressBegin(key, Clock)
          /\ UNCHANGED guiVars
    \/ \E key \in AllKeys :
          /\ Len(delivered) < MaxKeyEvents
          /\ KeyReleaseBegin(key, Clock)
          /\ UNCHANGED guiVars
    \/ KeyF9Callback /\ UNCHANGED guiVars
    \/ KeyF9Saved /\ UNCHANGED guiVars
    \/ KeyAppend /\ UNCHANGED guiVars

Spec == Init /\ [][Next]_vars

\* main(), choice 1: `while recorder.recording: time.sleep(0.1)` is left once
\* recording reads False, and recorder.stop_recording() follows.
MainPollExit ==
    /\ ~recording
    /\ StopRecording

\* main(), choice 1, after stop_recording(): `if actions and not
\* recorder.auto_saved:` asks for a file name and saves the log.
MainAfterStop ==
    /\ phase = "stopped"
    /\ phase' = IF retLog # <<>> /\ ~auto_saved THEN "manual_save" ELSE "exit"
    /\ UNCHANGED <<actions, recording, shift_pressed, alt_pressed, auto_saved,
                   first_alt_tab_skipped, skipping_first_alt_tab,
                   mouse_listener, keyboard_listener, now, kpc, kEvt, mpc, mEvt,
                   delivered, mods, nMouse, cbLog, cbCount, retLog>>
    /\ UNCHANGED repVars

\* A capture session of the command-line tool: the caller polls
\* recorder.recording while the listeners handle any input.
NextMain ==
    \/ StartRecording /\ UNCHANGED guiVars
    \/ MainPollExit /\ UNCHANGED guiVars
    \/ MainAfterStop /\ UNCHANGED guiVars
    \/ \E type \in MouseTypes :
          /\ nMouse < MaxMouseEvents
          /\ MouseBegin(type, Clock)
          /\ UNCHANGED guiVars
    \/ MouseAppend /\ UNCHANGED guiVars
    \/ \E key \in AllKeys :
          /\ Len(delivered) < MaxKeyEvents
          /\ KeyPressBegin(key, Clock)
          /\ UNCHANGED guiVars
    \/ \E key \in AllKeys :
          /\ Len(delivered) < MaxKeyEvents
          /\ KeyReleaseBegin(key, Clock)
          /\ UNCHANGED guiVars
    \/ KeyF9Callback /\ UNCHANGED guiVars
    \/ KeyF9Saved /\ UNCHANGED guiVars
    \/ KeyAppend /\ UNCHANGED guiVars

SpecMain == Init /\ [][NextMain]_vars

\* The first Alt+Tab of a session, with alt still held and with alt released.
FirstAltTabHeld == <<<<"press", "alt_l">>, <<"press", "tab">>, <<"release", "tab">>>>
FirstAltTabDone == Append(FirstAltTabHeld, <<"release", "alt_l">>)

IsPrefix(p, h) == Len(p) <= Len(h) /\ SubSeq(h, 1, Len(p)) = p

\* The sessions of SpecAltTab, by the key events h handled and the shift, alt
\* and Tab events m among them: at most MaxModEvents key events in any order,
\* or a session whose shift, alt and Tab events open with the first Alt+Tab,
\* with at most MaxModEvents further key events anywhere in it.
InSession(h, m) ==
    \/ Len(h) <= MaxModEvents
    \/ IsPrefix(m, FirstAltTabDone) /\ Len(h) - Len(m) <= MaxModEvents
    \/ \E o \in {FirstAltTabHeld, FirstAltTabDone} :
          IsPrefix(o, m) /\ Len(h) - Len(o) <= MaxModEvents

MayHandle(e) == InSession(Append(delivered, e), ModEventsAfter(e))

\* A capture session whose key events are shift, alt, Tab and an ordinary
\* key; the clock stands still (the Alt+Tab rules read no timestamp).
NextAltTab ==
    \/ StartRecording /\ UNCHANGED guiVars
    \/ StopRecording /\ UNCHANGED guiVars
    \/ /\ nMouse < MaxMouseEvents
       /\ MouseBegin("mouse_move", {now})
       /\ UNCHANGED guiVars
    \/ MouseAppend /\ UNCHANGED guiVars
    \/ \E key \in ModKeys \cup FillerKeys :
          /\ MayHandle(<<"press", key>>)
          /\ KeyPressBegin(key, {now})
          /\ UNCHANGED guiVars
    \/ \E key \in ModKeys \cup FillerKeys :
          /\ MayHandle(<<"release", key>>)
          /\ KeyReleaseBegin(key, {now})
          /\ UNCHANGED guiVars
    \/ KeyAppend /\ UNCHANGED guiVars

SpecAltTab == Init /\ [][NextAltTab]_vars

\* ActionRecorder.start_recording called again on a recorder that has been
\* used and stopped: it assigns actions, start_time, recording and the two
\* listeners, and nothing else.  The observers start over with the session.
RestartRecording ==
    /\ UNCHANGED repVars
    /\ phase = "stopped"
    /\ actions' = <<>>
    /\ now' = 0
    /\ recording' = TRUE
    /\ mouse_listener' = TRUE
    /\ keyboard_listener' = TRUE
    /\ phase' = "started"
    /\ delivered' = <<>>
    /\ mods' = <<>>
    /\ nMouse' = 0
    /\ UNCHANGED <<shift_pressed, alt_pressed, auto_saved, first_alt_tab_skipped,
                   skipping_first_alt_tab, kpc, kEvt, mpc, mEvt,
                   cbLog, cbCount, retLog>>

\* One recorder used for session after session, each of at most MaxKeyEvents
\* key events among shift, alt, Tab and an ordinary key; the clock stands
\* still.
NextReuse ==
    \/ StartRecording /\ UNCHANGED guiVars
    \/ StopRecording /\ UNCHANGED guiVars
    \/ RestartRecording /\ UNCHANGED guiVars
    \/ \E key \in ModKeys \cup FillerKeys :
          /\ Len(delivered) < MaxKeyEvents
          /\ KeyPressBegin(key, {now})
          /\ UNCHANGED guiVars
    \/ \E key \in ModKeys \cup FillerKeys :
          /\ Len(delivered) < MaxKeyEvents
          /\ KeyReleaseBegin(key, {now})
          /\ UNCHANGED guiVars
    \/ KeyAppend /\ UNCHANGED guiVars

SpecReuse == Init /\ [][NextReuse]_vars

\* ------------------------------------------------------------------ replay

\* The members of pynput's Key that the symbol table of _parse_key names,
\* and further members that getattr(Key, name) finds.
SpecialKeyNames == {"space", "enter", "shift", "ctrl", "alt", "tab", "backspace",
                    "delete", "esc", "up", "down", "left", "right"}
KeyMembers == SpecialKeyNames \cup {"shift_l", "shift_r", "alt_l", "alt_r",
                                    "alt_gr", "f9"}

\* What stands for the AttributeError that None.startswith('Key.') raises.
AttributeError == "<AttributeError>"

\* A faulty parse that hands back a name Key does not have as it is.
ParseKeyVerbatim(key_str) ==
    IF \E k \in KeyMembers : key_str = "Key." \o k
    THEN CHOOSE k \in KeyMembers : key_str = "Key." \o k
    ELSE key_str

\* ActionReplayer._parse_key: the table, then getattr(Key, name) with None
\* for a name Key does not have, then the character itself.  None is in no
\* table and has no startswith.
ParseKey(key_str) ==
    IF key_str = NoKey THEN AttributeError
    ELSE IF \E k \in KeyMembers : key_str = "Key." \o k
    THEN CHOOSE k \in KeyMembers : key_str = "Key." \o k
    ELSE IF key_str \in {"Key.bogus"} THEN NoKey
    ELSE key_str

Call(name, arg) == [call |-> name, arg |-> arg]

\* ActionReplayer._execute_action: the controller calls one event makes.
ExecuteAction(action) ==
    IF action.type = "mouse_move" THEN <<Call("position", "")>>
    ELSE IF action.type = "mouse_click"
    THEN <<Call("position", ""),
           Call(IF action.pressed THEN "mouse_press" ELSE "mouse_release",
                IF action.button = "Button.left" THEN "left" ELSE "right")>>
    ELSE IF action.type = "mouse_scroll"
    THEN <<Call("position", ""), Call("scroll", "")>>
    ELSE IF action.type \in {"key_press", "key_release"}
    THEN IF ParseKey(action.key) \in {NoKey, ""} THEN <<>>
         ELSE <<Call(action.type, ParseKey(action.key))>>
    ELSE <<>>

\* _execute_action raises: the error of _parse_key is not caught.
ExecuteRaises(action) ==
    /\ action.type \in {"key_press", "key_release"}
    /\ ParseKey(action.key) = AttributeError

\* The events a replayed log is made of, without their timestamps.
Shapes ==
    { [type |-> "mouse_move", key |-> "", button |-> "", pressed |-> FALSE],
      [type |-> "key_press", key |-> "a", button |-> "", pressed |-> FALSE],
      [type |-> "key_release", key |-> "Key.tab", button |-> "", pressed |-> FALSE],
      [type |-> "key_press", key |-> "Key.bogus", button |-> "", pressed |-> FALSE] }
Gaps == {0, MaxGap}

Timed(shape, t) ==
    [type |-> shape.type, key |-> shape.key, button |-> shape.button,
     pressed |-> shape.pressed, time |-> t]

RECURSIVE TimeOf(_, _)
TimeOf(gaps, i) == IF i = 0 THEN 0 ELSE TimeOf(gaps, i - 1) + gaps[i]

\* The logs replay() is given: at most MaxLogLen events, timestamps
\* non-decreasing.
Logs ==
    UNION { { [i \in 1..n |-> Timed(sh[i], TimeOf(gp, i))] :
                sh \in [1..n -> Shapes], gp \in [1..n -> Gaps] } :
            n \in 0..MaxLogLen }

PauseMark ==
    [type |-> "pause", key |-> "", button |-> "", pressed |-> FALSE, time |-> 0]

Min(a, b) == IF a < b THEN a ELSE b

\* A faulty wait that sleeps the whole gap in one call.
SleepTimeWhole(wait, done) == wait - done

\* A faulty wait that sleeps a full chunk every time.
SleepTimeFullChunk(wait, done) == chunk_size

\* sleep_time = min(chunk_size, wait_time - waited)
SleepTime(wait, done) == Min(chunk_size, wait - done)

\* A faulty test that also pauses after the last iteration.
NeedsPauseAlways(it, count) == it < count

\* if iteration < repeat_count - 1
NeedsPause(it, count) == it < count - 1

\* One unit of a time.sleep() call goes by.
Tick ==
    /\ sleep_left > 0
    /\ sleep_left' = sleep_left - 1
    /\ since_cancel' = IF stop_replay THEN since_cancel + 1 ELSE since_cancel

\* replay(), from its entry to the call of time.sleep(delay_before_start),
\* which raises ValueError for a negative length: replay() is then left
\* before its try statement, so its finally block does not run.
ReplayStart(logs, counts, delays) ==
    /\ rpc = "init"
    /\ \E log \in logs, count \in counts, delay \in delays :
         /\ rlog' = log
         /\ repeat_count' = count
         /\ delay_before_start' = delay
         /\ sleep_left' = IF delay < 0 THEN 0 ELSE delay
         /\ rpc' = IF delay < 0 THEN "raised" ELSE "startup"
    /\ replaying' = TRUE
    /\ stop_replay' = FALSE
    /\ replay_listener' = TRUE
    /\ UNCHANGED <<injected, iteration, idx, last_action_time, wait_time, waited,
                   sleep_time, trace, cancel_at, done_at_cancel, since_cancel,
                   startup_slept>>
    /\ UNCHANGED <<returned, slices>>
    /\ UNCHANGED recVars

\* time.sleep(delay_before_start): one call, which nothing interrupts
StartupSleep ==
    /\ rpc = "startup"
    /\ IF sleep_left > 0
       THEN /\ Tick
            /\ startup_slept' = startup_slept + 1
            /\ UNCHANGED <<rpc, iteration>>
       ELSE /\ rpc' = "iter_check"
            /\ iteration' = 0
            /\ UNCHANGED <<sleep_left, since_cancel, startup_slept>>
    /\ UNCHANGED <<injected, replaying, stop_replay, replay_listener, rlog, repeat_count,
                   delay_before_start, idx, last_action_time, wait_time, waited,
                   sleep_time, trace, cancel_at, done_at_cancel>>
    /\ UNCHANGED <<returned, slices>>
    /\ UNCHANGED recVars

\* for iteration in range(repeat_count): if self.stop_replay: break
IterCheck ==
    /\ rpc = "iter_check"
    /\ IF iteration >= repeat_count \/ stop_replay
       THEN /\ rpc' = "finish"
            /\ UNCHANGED <<idx, last_action_time>>
       ELSE /\ rpc' = "event_check"
            /\ idx' = 1
            /\ last_action_time' = 0
    /\ UNCHANGED <<injected, replaying, stop_replay, replay_listener, rlog, repeat_count,
                   delay_before_start, iteration, wait_time, waited, sleep_time,
                   sleep_left, trace, cancel_at, done_at_cancel, since_cancel,
                   startup_slept>>
    /\ UNCHANGED <<returned, slices>>
    /\ UNCHANGED recVars

\* for action in actions: if self.stop_replay: break;
\* wait_time = action['time'] - last_action_time; if wait_time > 0: waited = 0
EventCheck ==
    /\ rpc = "event_check"
    /\ IF idx > Len(rlog) \/ stop_replay
       THEN /\ rpc' = "iter_end"
            /\ UNCHANGED <<wait_time, waited>>
       ELSE /\ wait_time' = rlog[idx].time - last_action_time
            /\ IF rlog[idx].time - last_action_time > 0
               THEN waited' = 0 /\ rpc' = "wait_loop"
               ELSE UNCHANGED waited /\ rpc' = "pre_exec"
    /\ UNCHANGED <<injected, replaying, stop_replay, replay_listener, rlog, repeat_count,
                   delay_before_start, iteration, idx, last_action_time,
                   sleep_time, sleep_left, trace, cancel_at, done_at_cancel,
                   since_cancel, startup_slept>>
    /\ UNCHANGED <<returned, slices>>
    /\ UNCHANGED recVars

\* while waited < wait_time and not self.stop_replay:
\*     sleep_time = min(chunk_size, wait_time - waited)
WaitLoop ==
    /\ rpc = "wait_loop"
    /\ IF waited < wait_time /\ ~stop_replay
       THEN /\ sleep_time' = SleepTime(wait_time, waited)
            /\ sleep_left' = SleepTime(wait_time, waited)
            /\ slices' = Append(slices, SleepTime(wait_time, waited))
            /\ rpc' = "slice"
       ELSE /\ rpc' = "pre_exec"
            /\ UNCHANGED <<sleep_time, sleep_left, slices>>
    /\ UNCHANGED <<injected, replaying, stop_replay, replay_listener, rlog, repeat_count,
                   delay_before_start, iteration, idx, last_action_time,
                   wait_time, waited, trace, cancel_at, done_at_cancel,
                   since_cancel, startup_slept>>
    /\ UNCHANGED returned
    /\ UNCHANGED recVars

\* time.sleep(sleep_time); waited += sleep_time
SliceSleep ==
    /\ rpc = "slice"
    /\ IF sleep_left > 0
       THEN /\ Tick
            /\ UNCHANGED <<rpc, waited>>
       ELSE /\ waited' = waited + sleep_time
            /\ rpc' = "wait_loop"
            /\ UNCHANGED <<sleep_left, since_cancel>>
    /\ UNCHANGED <<injected, replaying, stop_replay, replay_listener, rlog, repeat_count,
                   delay_before_start, iteration, idx, last_action_time,
                   wait_time, sleep_time, trace, cancel_at, done_at_cancel,
                   startup_slept>>
    /\ UNCHANGED <<returned, slices>>
    /\ UNCHANGED recVars

\* A faulty step that goes on to the injection without the check.
PreExecUnchecked ==
    /\ rpc = "pre_exec"
    /\ rpc' = "exec"
    /\ UNCHANGED <<injected, replaying, stop_replay, replay_listener, rlog, repeat_count,
                   delay_before_start, iteration, idx, last_action_time,
                   wait_time, waited, sleep_time, sleep_left, trace, cancel_at,
                   done_at_cancel, since_cancel, startup_slept>>
    /\ UNCHANGED <<returned, slices>>
    /\ UNCHANGED recVars

\* if self.stop_replay: break  (the check right before the injection)
PreExec ==
    /\ rpc = "pre_exec"
    /\ rpc' = IF stop_replay THEN "iter_end" ELSE "exec"
    /\ UNCHANGED <<injected, replaying, stop_replay, replay_listener, rlog, repeat_count,
                   delay_before_start, iteration, idx, last_action_time,
                   wait_time, waited, sleep_time, sleep_left, trace, cancel_at,
                   done_at_cancel, since_cancel, startup_slept>>
    /\ UNCHANGED <<returned, slices>>
    /\ UNCHANGED recVars

\* self._execute_action(action); last_action_time = action['time'].  An
\* error raised by _execute_action leaves the loops for the finally block.
Exec ==
    /\ rpc = "exec"
    /\ IF ExecuteRaises(rlog[idx])
       THEN /\ rpc' = "error"
            /\ UNCHANGED <<trace, injected, last_action_time, idx>>
       ELSE /\ trace' = Append(trace, rlog[idx])
            /\ injected' = injected \o ExecuteAction(rlog[idx])
            /\ last_action_time' = rlog[idx].time
            /\ idx' = idx + 1
            /\ rpc' = "event_check"
    /\ UNCHANGED <<replaying, stop_replay, replay_listener, rlog, repeat_count,
                   delay_before_start, iteration, wait_time, waited, sleep_time,
                   sleep_left, cancel_at, done_at_cancel, since_cancel,
                   startup_slept>>
    /\ UNCHANGED <<returned, slices>>
    /\ UNCHANGED recVars

\* if self.stop_replay: break; if iteration < repeat_count - 1: time.sleep(0.5)
IterEnd ==
    /\ rpc = "iter_end"
    /\ IF stop_replay
       THEN /\ rpc' = "finish"
            /\ UNCHANGED <<iteration, sleep_left, trace>>
       ELSE IF NeedsPause(iteration, repeat_count)
       THEN /\ rpc' = "pause"
            /\ sleep_left' = IterationPause
            /\ trace' = Append(trace, PauseMark)
            /\ UNCHANGED iteration
       ELSE /\ rpc' = "iter_check"
            /\ iteration' = iteration + 1
            /\ UNCHANGED <<sleep_left, trace>>
    /\ UNCHANGED <<replaying, stop_replay, replay_listener, rlog, repeat_count,
                   delay_before_start, idx, last_action_time, wait_time, waited,
                   sleep_time, injected, cancel_at, done_at_cancel, since_cancel,
                   startup_slept>>
    /\ UNCHANGED <<returned, slices>>
    /\ UNCHANGED recVars

\* time.sleep(0.5) between two iterations: one call, which nothing interrupts
PauseSleep ==
    /\ rpc = "pause"
    /\ IF sleep_left > 0
       THEN /\ Tick
            /\ UNCHANGED <<rpc, iteration>>
       ELSE /\ rpc' = "iter_check"
            /\ iteration' = iteration + 1
            /\ UNCHANGED <<sleep_left, since_cancel>>
    /\ UNCHANGED <<replaying, stop_replay, replay_listener, rlog, repeat_count,
                   delay_before_start, idx, last_action_time, wait_time, waited,
                   sleep_time, trace, injected, cancel_at, done_at_cancel,
                   startup_slept>>
    /\ UNCHANGED <<returned, slices>>
    /\ UNCHANGED recVars

\* finally: self.replaying = False; self.keyboard_listener.stop().  replay()
\* has no return statement, so what it returns is None.
Finish ==
    /\ rpc = "finish"
    /\ replaying' = FALSE
    /\ replay_listener' = FALSE
    /\ rpc' = "done"
    /\ returned' = <<>>
    /\ UNCHANGED slices
    /\ UNCHANGED <<stop_replay, rlog, repeat_count, delay_before_start,
                   iteration, idx, last_action_time, wait_time, waited,
                   sleep_time, sleep_left, trace, injected, cancel_at,
                   done_at_cancel, since_cancel, startup_slept>>
    /\ UNCHANGED recVars

\* The finally block on the way out of replay() with an error: the cleanup,
\* and the error goes on to the caller.
FinishError ==
    /\ rpc = "error"
    /\ replaying' = FALSE
    /\ replay_listener' = FALSE
    /\ rpc' = "raised"
    /\ UNCHANGED <<stop_replay, rlog, repeat_count, delay_before_start,
                   iteration, idx, last_action_time, wait_time, waited,
                   sleep_time, sleep_left, trace, injected, cancel_at,
                   done_at_cancel, since_cancel, startup_slept, returned,
                   slices>>
    /\ UNCHANGED recVars

\* What the observers note when cancellation is requested.
NoteCancel ==
    IF stop_replay
    THEN UNCHANGED <<cancel_at, done_at_cancel>>
    ELSE cancel_at' = rpc /\ done_at_cancel' = Len(trace)

\* ActionReplayer._on_key_press_replay with F9: self.stop_replay = True;
\* return False (pynput stops the listener)
OnKeyPressReplayF9 ==
    /\ replay_listener
    /\ stop_replay' = TRUE
    /\ replay_listener' = FALSE
    /\ NoteCancel
    /\ UNCHANGED <<replaying, rlog, repeat_count, delay_before_start,
                   iteration, idx, last_action_time, wait_time, waited,
                   sleep_time, rpc, sleep_left, trace, injected, since_cancel,
                   startup_slept>>
    /\ UNCHANGED <<returned, slices>>
    /\ UNCHANGED recVars

\* AutomationGUI.stop_replay while replay() runs: self.replayer.stop_replay = True
StopReplayRequest ==
    /\ rpc \notin {"init", "done"}
    /\ ~stop_replay
    /\ stop_replay' = TRUE
    /\ NoteCancel
    /\ UNCHANGED <<replaying, replay_listener, rlog, repeat_count,
                   delay_before_start, iteration, idx, last_action_time,
                   wait_time, waited, sleep_time, rpc, sleep_left, trace,
                   injected, since_cancel, startup_slept>>
    /\ UNCHANGED <<returned, slices>>
    /\ UNCHANGED recVars

\* The delays replay() is started with in SpecReplay.
Delays == {0, MaxDelay}

NextReplay ==
    \/ ReplayStart(Logs, 0..MaxRepeat, Delays) /\ UNCHANGED guiVars
    \/ StartupSleep /\ UNCHANGED guiVars
    \/ IterCheck /\ UNCHANGED guiVars
    \/ EventCheck /\ UNCHANGED guiVars
    \/ WaitLoop /\ UNCHANGED guiVars
    \/ SliceSleep /\ UNCHANGED guiVars
    \/ PreExec /\ UNCHANGED guiVars
    \/ Exec /\ UNCHANGED guiVars
    \/ IterEnd /\ UNCHANGED guiVars
    \/ PauseSleep /\ UNCHANGED guiVars
    \/ Finish /\ UNCHANGED guiVars
    \/ OnKeyPressReplayF9 /\ UNCHANGED guiVars
    \/ StopReplayRequest /\ UNCHANGED guiVars

SpecReplay == Init /\ [][NextReplay]_vars

\* ------------------------------------------------------ replay of clicks

\* pynput's mouse buttons, and str(button), which _on_mouse_click stores.
Buttons == {"left", "right", "middle"}
ButtonStr(button) == "Button." \o button

\* The click events _on_mouse_click appends, without their timestamps.
ClickShapes ==
    { [type |-> "mouse_click", key |-> "", button |-> ButtonStr(b), pressed |-> p] :
        b \in Buttons, p \in BOOLEAN }

\* Logs of at most MaxLogLen clicks, all at time 0.
ClickLogs ==
    UNION { { [i \in 1..n |-> Timed(sh[i], 0)] : sh \in [1..n -> ClickShapes] } :
            n \in 0..MaxLogLen }

\* replay(actions, 1, 0) of a log of clicks, left to run to its end.
NextClickReplay ==
    \/ ReplayStart(ClickLogs, {1}, {0}) /\ UNCHANGED guiVars
    \/ StartupSleep /\ UNCHANGED guiVars
    \/ IterCheck /\ UNCHANGED guiVars
    \/ EventCheck /\ UNCHANGED guiVars
    \/ PreExec /\ UNCHANGED guiVars
    \/ Exec /\ UNCHANGED guiVars
    \/ IterEnd /\ UNCHANGED guiVars
    \/ Finish /\ UNCHANGED guiVars

SpecClickReplay == Init /\ [][NextClickReplay]_vars

\* ------------------------------------------------------- record and replay

\* The keys pressed and released in SpecRecordReplay: a key with a
\* character, members of Key, a key with neither, and F9 to end the capture.
RoundTripKeys == {"a", "shift_l", "tab", "<96>", "f9"}

\* main(), choice 3, after stop_recording(): `if actions:` it calls
\* replayer.replay(actions, repeat_count, delay) with the numbers the user
\* types, here 1 and 0.
MainReplay ==
    /\ phase = "stopped"
    /\ actions # <<>>
    /\ ReplayStart({actions}, {1}, {0})

\* main(), choice 3: a capture session of key events, ended with F9, and
\* the replay of its log.
NextRecordReplay ==
    \/ StartRecording /\ UNCHANGED guiVars
    \/ \E key \in RoundTripKeys :
          /\ Len(delivered) < MaxKeyEvents + 1
          /\ KeyPressBegin(key, Clock)
          /\ UNCHANGED guiVars
    \/ \E key \in RoundTripKeys :
          /\ Len(delivered) < MaxKeyEvents + 1
          /\ KeyReleaseBegin(key, Clock)
          /\ UNCHANGED guiVars
    \/ KeyAppend /\ UNCHANGED guiVars
    \/ KeyF9Callback /\ UNCHANGED guiVars
    \/ KeyF9Saved /\ UNCHANGED guiVars
    \/ MainPollExit /\ UNCHANGED guiVars
    \/ MainReplay /\ UNCHANGED guiVars
    \/ StartupSleep /\ UNCHANGED guiVars
    \/ IterCheck /\ UNCHANGED guiVars
    \/ EventCheck /\ UNCHANGED guiVars
    \/ WaitLoop /\ UNCHANGED guiVars
    \/ SliceSleep /\ UNCHANGED guiVars
    \/ PreExec /\ UNCHANGED guiVars
    \/ Exec /\ UNCHANGED guiVars
    \/ IterEnd /\ UNCHANGED guiVars
    \/ Finish /\ UNCHANGED guiVars
    \/ FinishError /\ UNCHANGED guiVars

SpecRecordReplay == Init /\ [][NextRecordReplay]_vars

\* --------------------------------------------------------------------- GUI
\* AutomationGUI of src/automation_gui.py.  Its methods run on the Tk thread,
\* one at a time: a button calls one directly, root.after(0, ...) queues one.
\* The hotkey listener, the recorder's and the replayer's listeners,
\* record_thread and replay_thread are threads of their own.  The GUI makes
\* a new ActionRecorder for every capture and a new ActionReplayer for every
\* replay; a session thread that is still alive when its object is replaced
\* is not followed further.

\* Callbacks that may wait in the Tk queue.
MaxPending == 1

\* What the user types while the GUI runs: a run of key events that opens
\* one of these.
KeyScripts ==
    { << <<"press", "shift">>, <<"press", "alt_l">>, <<"press", "Q">>,
         <<"press", "Q">> >>,
      << <<"press", "alt_l">>, <<"press", "shift">>, <<"press", "w">>,
         <<"press", "w">> >>,
      << <<"press", "shift">>, <<"press", "alt_l">>, <<"release", "shift">>,
         <<"press", "Q">> >>,
      << <<"press", "alt_l">>, <<"press", "w">>, <<"press", "Q">> >>,
      << <<"press", "Q">>, <<"press", "w">> >>,
      << <<"press", "shift">>, <<"press", "f9">>, <<"press", "f9">> >> }

\* The files the user loads: logs the tool has saved (save_actions is called
\* for non-empty logs only).
SavedLogs ==
    { << [type |-> "mouse_move", key |-> "", button |-> "", pressed |-> FALSE,
          time |-> 0],
         [type |-> "key_press", key |-> "a", button |-> "", pressed |-> FALSE,
          time |-> 1] >> }

\* What the user has typed into the repeat count and delay boxes.
RepeatInputs == {-1, 1}
DelayInputs == {-1, 0}

\* self.recorder = ActionRecorder(auto_save_callback=auto_save)
NewActionRecorder ==
    /\ actions' = <<>>
    /\ recording' = FALSE
    /\ shift_pressed' = FALSE
    /\ alt_pressed' = FALSE
    /\ auto_saved' = FALSE
    /\ first_alt_tab_skipped' = FALSE
    /\ skipping_first_alt_tab' = FALSE
    /\ mouse_listener' = FALSE
    /\ keyboard_listener' = FALSE
    /\ now' = 0
    /\ kpc' = "idle"
    /\ kEvt' = NoEvt
    /\ mpc' = "idle"
    /\ mEvt' = NoEvt
    /\ phase' = "constructed"
    /\ delivered' = <<>>
    /\ mods' = <<>>
    /\ nMouse' = 0
    /\ cbLog' = <<>>
    /\ cbCount' = 0
    /\ retLog' = <<>>

\* self.replayer = ActionReplayer()
NewActionReplayer ==
    /\ replaying' = FALSE
    /\ stop_replay' = FALSE
    /\ replay_listener' = FALSE
    /\ rlog' = <<>>
    /\ repeat_count' = 0
    /\ delay_before_start' = 0
    /\ iteration' = 0
    /\ idx' = 0
    /\ last_action_time' = 0
    /\ wait_time' = 0
    /\ waited' = 0
    /\ sleep_time' = 0
    /\ rpc' = "init"
    /\ sleep_left' = 0
    /\ trace' = <<>>
    /\ cancel_at' = "none"
    /\ done_at_cancel' = 0
    /\ since_cancel' = 0
    /\ startup_slept' = 0
    /\ injected' = <<>>
    /\ returned' = <<>>
    /\ slices' = <<>>

\* AutomationGUI.start_recording
GuiStartRecording ==
    IF is_recording \/ is_replaying
    THEN \* showwarning("Please stop current operation first."); return
         UNCHANGED <<guiFlags, thrVars, rep_in, recVars, repVars>>
    ELSE /\ NewActionRecorder
         /\ is_recording' = TRUE
         /\ rth' = "spawned"
         /\ save_prompt' = "none"
         /\ UNCHANGED <<is_replaying, loaded_actions, pth, repeat_arg, delay_arg,
                        rep_in, repVars>>

\* AutomationGUI.stop_recording, called by the stop button or queued by the
\* hotkey listener: recorder.stop_recording(), then askyesno() when the log
\* is not empty and was not auto-saved.
GuiStopRecording(caller) ==
    IF ~is_recording
    THEN UNCHANGED <<guiFlags, thrVars, rep_in, recVars, repVars>>
    ELSE /\ recording' = FALSE
         /\ mouse_listener' = FALSE
         /\ keyboard_listener' = FALSE
         /\ retLog' = actions
         /\ phase' = IF phase = "started" THEN "stopped" ELSE phase
         /\ is_recording' = FALSE
         /\ save_prompt' = IF actions # <<>> /\ ~auto_saved THEN caller
                           ELSE save_prompt
         /\ UNCHANGED <<actions, shift_pressed, alt_pressed, auto_saved,
                        first_alt_tab_skipped, skipping_first_alt_tab, now,
                        kpc, kEvt, mpc, mEvt, delivered, mods, nMouse, cbLog,
                        cbCount>>
         /\ UNCHANGED <<is_replaying, loaded_actions, thrVars, rep_in, repVars>>

\* AutomationGUI.on_recording_stopped
GuiOnRecordingStopped ==
    /\ is_recording' = FALSE
    /\ UNCHANGED <<is_replaying, loaded_actions, save_prompt, thrVars,
                   rep_in, recVars, repVars>>

\* AutomationGUI.load_file, the user choosing a file or cancelling
GuiLoadFile ==
    IF is_recording \/ is_replaying
    THEN \* showwarning("Please stop current operation first."); return
         UNCHANGED <<guiFlags, thrVars, rep_in, recVars, repVars>>
    ELSE /\ \E log \in SavedLogs \cup {loaded_actions} : loaded_actions' = log
         /\ UNCHANGED <<is_recording, is_replaying, save_prompt, thrVars, rep_in,
                        recVars, repVars>>

\* The plan start_replay accepts: neither capturing nor replaying, and
\* self.loaded_actions is not empty.
StartReplayAccepted == ~is_recording /\ ~is_replaying /\ loaded_actions # <<>>

\* AutomationGUI.start_replay
GuiStartReplay ==
    IF is_recording \/ is_replaying
    THEN \* showwarning("Please stop current operation first."); return
         UNCHANGED <<guiFlags, thrVars, rep_in, recVars, repVars>>
    ELSE IF loaded_actions = <<>>
    THEN \* showwarning("Please load a recording file first."); return
         UNCHANGED <<guiFlags, thrVars, rep_in, recVars, repVars>>
    ELSE /\ \E count \in RepeatInputs, delay \in DelayInputs :
              /\ repeat_arg' = count
              /\ delay_arg' = delay
         /\ is_replaying' = TRUE
         /\ NewActionReplayer
         /\ pth' = "spawned"
         /\ rep_in' = FALSE
         /\ UNCHANGED <<is_recording, loaded_actions, save_prompt, rth, recVars>>

\* AutomationGUI.stop_replay
GuiStopReplay ==
    IF ~is_replaying
    THEN UNCHANGED <<guiFlags, thrVars, rep_in, recVars, repVars>>
    ELSE /\ stop_replay' = TRUE
         /\ NoteCancel
         /\ UNCHANGED <<replaying, replay_listener, rlog, repeat_count,
                        delay_before_start, iteration, idx, last_action_time,
                        wait_time, waited, sleep_time, rpc, sleep_left, trace,
                        injected, since_cancel, startup_slept, returned,
                        slices>>
         /\ UNCHANGED <<guiFlags, thrVars, rep_in, recVars>>

\* AutomationGUI.replay_finished
GuiReplayFinished ==
    /\ is_replaying' = FALSE
    /\ UNCHANGED <<is_recording, loaded_actions, save_prompt, thrVars,
                   rep_in, recVars, repVars>>

\* AutomationGUI.update_status, which the Tk thread runs every 100 ms
GuiUpdateStatus ==
    /\ is_recording' = (is_recording /\ recording)
    /\ is_replaying' = (is_replaying /\ replaying)
    /\ UNCHANGED <<loaded_actions, save_prompt, hkVars, thrVars, inVars,
                   tkq, recVars, repVars>>

\* A button press: the Tk thread runs the button's command.
Click(method) ==
    /\ method
    /\ UNCHANGED <<hkVars, typed, chord_logged, tkq>>

\* The Tk thread runs the oldest callback root.after(0, ...) has queued.
DispatchTk ==
    /\ tkq # <<>>
    /\ tkq' = Tail(tkq)
    /\ \/ Head(tkq) = "start_recording" /\ GuiStartRecording
       \/ Head(tkq) = "stop_recording" /\ GuiStopRecording("chord")
       \/ Head(tkq) = "start_replay" /\ GuiStartReplay
       \/ Head(tkq) = "stop_replay" /\ GuiStopReplay
       \/ Head(tkq) = "on_recording_stopped" /\ GuiOnRecordingStopped
       \/ Head(tkq) = "replay_finished" /\ GuiReplayFinished
    /\ UNCHANGED <<hkVars, typed, chord_logged>>

\* A faulty on_press that does not look at the modifier flags.
HotkeyRequestAnyTime(key) ==
    IF key \in {"q", "Q"}
    THEN IF ~is_recording /\ ~is_replaying THEN "start_recording"
         ELSE IF is_recording THEN "stop_recording"
         ELSE "none"
    ELSE IF key \in {"w", "W"}
    THEN IF ~is_recording /\ ~is_replaying /\ loaded_actions # <<>>
         THEN "start_replay"
         ELSE IF is_replaying THEN "stop_replay"
         ELSE "none"
    ELSE "none"

\* What on_press of the hotkey listener queues for the Tk thread ("none" when
\* nothing).  A member of Key has no .char: the AttributeError is swallowed.
HotkeyRequest(key) ==
    IF key \in ShiftKeys \cup AltKeys THEN "none"
    ELSE IF ~(hotkey_shift_pressed /\ hotkey_alt_pressed) THEN "none"
    ELSE IF key \in {"q", "Q"}
    THEN IF ~is_recording /\ ~is_replaying THEN "start_recording"
         ELSE IF is_recording THEN "stop_recording"
         ELSE "none"
    ELSE IF key \in {"w", "W"}
    THEN IF ~is_recording /\ ~is_replaying /\ loaded_actions # <<>>
         THEN "start_replay"
         ELSE IF is_replaying THEN "stop_replay"
         ELSE "none"
    ELSE "none"

\* on_press of the hotkey listener
HotkeyOnPress(key) ==
    /\ hotkey_shift_pressed' = (hotkey_shift_pressed \/ key \in ShiftKeys)
    /\ hotkey_alt_pressed' = (hotkey_alt_pressed \/ key \in AltKeys)
    /\ tkq' = IF HotkeyRequest(key) = "none" THEN tkq
              ELSE Append(tkq, HotkeyRequest(key))

\* on_release of the hotkey listener
HotkeyOnRelease(key) ==
    /\ hotkey_shift_pressed' = (hotkey_shift_pressed /\ key \notin ShiftKeys)
    /\ hotkey_alt_pressed' = (hotkey_alt_pressed /\ key \notin AltKeys)
    /\ tkq' = tkq

\* The recorder's keyboard listener is handed a key event: its callback
\* runs when the listener is alive and `if self.recording:` holds.
RecorderHandles == keyboard_listener /\ recording

\* The user may type event e next.
Typable(e) == \E script \in KeyScripts : IsPrefix(Append(typed, e), script)

\* A key goes down: the hotkey listener handles the press, and so do the
\* recorder's and the replayer's listeners, if they run.  The hotkey
\* listener and the recorder's listener share no variable; their two
\* callbacks are taken as one step.
KeyDown(key) ==
    /\ Typable(<<"press", key>>)
    /\ kpc = "idle"
    /\ ~rep_in
    /\ Len(tkq) < MaxPending
    /\ HotkeyOnPress(key)
    /\ IF RecorderHandles
       THEN KeyPressBegin(key, {now})
       ELSE UNCHANGED <<recVars, repVars>>
    /\ chord_logged' = (chord_logged \/ (/\ HotkeyRequest(key) # "none"
                                          /\ RecorderHandles
                                          /\ kpc' = "append"))
    /\ rep_in' = (replay_listener /\ key = "f9")
    /\ typed' = Append(typed, <<"press", key>>)
    /\ UNCHANGED <<guiFlags, thrVars>>

\* A key goes up.
KeyUp(key) ==
    /\ Typable(<<"release", key>>)
    /\ kpc = "idle"
    /\ ~rep_in
    /\ HotkeyOnRelease(key)
    /\ IF RecorderHandles
       THEN KeyReleaseBegin(key, {now})
       ELSE UNCHANGED <<recVars, repVars>>
    /\ rep_in' = FALSE
    /\ typed' = Append(typed, <<"release", key>>)
    /\ UNCHANGED <<guiFlags, thrVars, chord_logged>>

\* auto_save, the callback the GUI gives the recorder: it saves a log that
\* is not empty and queues on_recording_stopped.
GuiAutoSave ==
    /\ Len(tkq) < MaxPending
    /\ KeyF9Callback
    /\ tkq' = Append(tkq, "on_recording_stopped")
    /\ UNCHANGED <<guiFlags, hkVars, thrVars, inVars>>

\* The replayer's listener handles the F9 press handed to it.
ReplayerKey ==
    /\ rep_in
    /\ IF replay_listener
       THEN OnKeyPressReplayF9
       ELSE UNCHANGED <<recVars, repVars>>
    /\ rep_in' = FALSE
    /\ UNCHANGED <<guiFlags, hkVars, thrVars, typed, chord_logged, tkq>>

\* record_thread: self.recorder.start_recording()
RecordThreadStart ==
    /\ rth = "spawned"
    /\ StartRecording
    /\ rth' = "poll"
    /\ UNCHANGED <<guiFlags, hkVars, pth, repeat_arg, delay_arg, inVars, tkq>>

\* record_thread once `while self.recorder.recording` fails:
\* if self.is_recording and not self.recorder.auto_saved: root.after(...)
RecordThreadExit ==
    /\ rth = "poll"
    /\ ~recording
    /\ Len(tkq) < MaxPending
    /\ tkq' = IF is_recording /\ ~auto_saved
              THEN Append(tkq, "on_recording_stopped")
              ELSE tkq
    /\ rth' = "none"
    /\ UNCHANGED <<guiFlags, hkVars, pth, repeat_arg, delay_arg, inVars,
                   recVars, repVars>>

\* replay_thread: self.replayer.replay(self.loaded_actions, repeat_count, delay)
ReplayThreadRun ==
    /\ pth = "spawned"
    /\ ReplayStart({loaded_actions}, {repeat_arg}, {delay_arg})
    /\ pth' = "running"
    /\ UNCHANGED <<guiFlags, hkVars, rth, repeat_arg, delay_arg, inVars, tkq>>

\* A faulty end of replay_thread that queues nothing.
ReplayThreadFinallyNothing(queue) == queue

\* finally: self.root.after(0, self.replay_finished)
ReplayThreadFinally(queue) == Append(queue, "replay_finished")

\* replay_thread once replay() has returned or raised
ReplayThreadEnd ==
    /\ pth = "running"
    /\ rpc \in {"done", "raised"}
    /\ Len(tkq) < MaxPending
    /\ tkq' = ReplayThreadFinally(tkq)
    /\ pth' = "none"
    /\ UNCHANGED <<guiFlags, hkVars, rth, repeat_arg, delay_arg, inVars,
                   recVars, repVars>>

\* The user leaves the pointer alone, and with the repeat counts of
\* RepeatInputs replay() has no pause between iterations to sleep.
NextGUI ==
    \/ Click(GuiStartRecording)
    \/ Click(GuiStopRecording("button"))
    \/ Click(GuiLoadFile)
    \/ Click(GuiStartReplay)
    \/ Click(GuiStopReplay)
    \/ GuiUpdateStatus
    \/ DispatchTk
    \/ \E key \in GuiKeys : KeyDown(key)
    \/ \E key \in GuiReleasedKeys : KeyUp(key)
    \/ GuiAutoSave
    \/ KeyF9Saved /\ UNCHANGED guiVars
    \/ KeyAppend /\ UNCHANGED guiVars
    \/ ReplayerKey
    \/ RecordThreadStart
    \/ RecordThreadExit
    \/ ReplayThreadRun
    \/ StartupSleep /\ UNCHANGED guiVars
    \/ IterCheck /\ UNCHANGED guiVars
    \/ EventCheck /\ UNCHANGED guiVars
    \/ WaitLoop /\ UNCHANGED guiVars
    \/ SliceSleep /\ UNCHANGED guiVars
    \/ PreExec /\ UNCHANGED guiVars
    \/ Exec /\ UNCHANGED guiVars
    \/ IterEnd /\ UNCHANGED guiVars
    \/ Finish /\ UNCHANGED guiVars
    \/ ReplayThreadEnd

SpecGUI == Init /\ [][NextGUI]_vars

\* The GUI with the capture side at rest: the user loads a file, starts and
\* stops replays, and types the play chord and F9.
ReplayKeys == {"shift", "alt_l", "w", "f9"}

\* A step of replay_thread.
ReplayThreadStep ==
    \/ ReplayThreadRun
    \/ StartupSleep /\ UNCHANGED guiVars
    \/ IterCheck /\ UNCHANGED guiVars
    \/ EventCheck /\ UNCHANGED guiVars
    \/ WaitLoop /\ UNCHANGED guiVars
    \/ SliceSleep /\ UNCHANGED guiVars
    \/ PreExec /\ UNCHANGED guiVars
    \/ Exec /\ UNCHANGED guiVars
    \/ IterEnd /\ UNCHANGED guiVars
    \/ Finish /\ UNCHANGED guiVars
    \/ ReplayThreadEnd

NextGuiReplay ==
    \/ Click(GuiLoadFile)
    \/ Click(GuiStartReplay)
    \/ Click(GuiStopReplay)
    \/ GuiUpdateStatus
    \/ DispatchTk
    \/ \E key \in ReplayKeys : KeyDown(key)
    \/ ReplayerKey
    \/ ReplayThreadStep

\* The operating system schedules replay_thread, and Tk's main loop runs the
\* queued callbacks and its 100 ms timer, for as long as they can run.
SpecGuiReplay ==
    /\ Init
    /\ [][NextGuiReplay]_vars
    /\ WF_vars(ReplayThreadStep)
    /\ WF_vars(DispatchTk)
    /\ WF_vars(GuiUpdateStatus)

\* ------------------------------------------------------------ capture claims

IsAltTabEntry(e) ==
    e.type \in {"key_press", "key_release"} /\ (e.key = "Key.tab" \/ HasAlt(e.key))

\* The alt and Tab entries of a log, as <<type, key>> pairs in log order.
AltTabEntries(log) ==
    LET sel == SelectSeq(log, IsAltTabEntry)
    IN [i \in 1..Len(sel) |-> <<sel[i].type, sel[i].key>>]

\* C1: the log never holds a reserved control key (F9, ESC), neither as a
\* key_press nor as a key_release.
C1_NoControlKeyInLog ==
    \A i \in 1..Len(actions) : actions[i].key \notin {"Key.f9", "Key.esc"}

SecondAltTabAfterRelease ==
    FirstAltTabDone \o <<<<"press", "alt_l">>, <<"press", "tab">>,
                         <<"release", "tab">>, <<"release", "alt_l">>>>
SecondAltTabHeld ==
    FirstAltTabHeld \o <<<<"press", "tab">>, <<"release", "tab">>,
                         <<"release", "alt_l">>>>

\* C3: the events of a second Alt+Tab are in the log unmodified and in order,
\* whether or not alt was released between the first Tab and the second.
C3_SecondAltTabRecorded ==
    /\ mods = SecondAltTabAfterRelease /\ kpc = "idle"
         => AltTabEntries(actions) =
              <<<<"key_press", "Key.alt_l">>, <<"key_press", "Key.tab">>,
                <<"key_release", "Key.tab">>, <<"key_release", "Key.alt_l">>>>
    /\ mods = SecondAltTabHeld /\ kpc = "idle"
         => \E i, j \in 1..Len(actions) :
              /\ i < j
              /\ actions[i].type = "key_press" /\ actions[i].key = "Key.tab"
              /\ actions[j].type = "key_release" /\ actions[j].key = "Key.tab"

\* C4: a step that handles a Tab press or release while shift and alt are
\* both tracked as held ends the callback without appending anything.
C4_ShiftAltTabDiscarded ==
    [][(/\ Len(delivered') = Len(delivered) + 1
        /\ delivered'[Len(delivered')][2] = "tab"
        /\ shift_pressed /\ alt_pressed)
       => (kpc' = "idle" /\ actions' = actions)]_vars

\* Tab handled with shift and alt held after the first Alt+Tab was skipped,
\* and handled more than once.
C4_Witness ==
    /\ Len(delivered) >= 2
    /\ delivered[Len(delivered)] = <<"release", "tab">>
    /\ delivered[Len(delivered) - 1] = <<"press", "tab">>
    /\ shift_pressed /\ alt_pressed
    /\ first_alt_tab_skipped

\* C5: F9 invokes the completion callback exactly once, and the log the
\* callback was given is the log stop_recording returns.
C5_CallbackLogIsFinal ==
    /\ cbCount <= 1
    /\ (cbCount = 1 /\ phase = "stopped") => retLog = cbLog

\* C6: once the ESC press has been handled the session is no longer active.
C6_EscEndsSession ==
    (\E i \in 1..Len(delivered) : delivered[i] = <<"press", "esc">>) => ~recording

\* C7: the timestamps of the log are non-decreasing in log order.
C7_TimestampsNonDecreasing ==
    \A i \in 1..(Len(actions) - 1) : actions[i + 1].time >= actions[i].time

\* ------------------------------------------------------------- replay claims

\* The events and pauses of count passes over log: a pause between two
\* consecutive passes, none after the last.
RECURSIVE Passes(_, _)
Passes(log, count) ==
    IF count = 1 THEN log ELSE log \o <<PauseMark>> \o Passes(log, count - 1)

\* C8: replay with repeat_count = N >= 1 executes the log's events in
\* recorded order, pass after pass with one pause between two consecutive
\* passes; absent cancellation it ends having made exactly N passes and N-1
\* pauses.
C8_ReplayPasses ==
    (repeat_count >= 1 /\ rpc # "init") =>
        /\ IsPrefix(trace, Passes(rlog, repeat_count))
        /\ (rpc = "done" /\ cancel_at = "none") => trace = Passes(rlog, repeat_count)

\* Three passes over a log of two different events ran to the end, uncancelled.
C8_Witness ==
    /\ rpc = "done"
    /\ cancel_at = "none"
    /\ repeat_count = 3
    /\ Len(rlog) = 2
    /\ rlog[1].type # rlog[2].type
    /\ Len(trace) = 8

\* C9: a cancellation requested during the startup delay is observed before
\* the delay has run its full length (or within one sleep slice of the
\* request), and no event is injected.
C9_StartupDelayInterruptible ==
    (cancel_at = "startup" /\ rpc # "startup") =>
        /\ startup_slept < delay_before_start \/ since_cancel <= chunk_size
        /\ trace = <<>>

\* C10: after a cancellation requested while replay waits out the gap before
\* an event, replay sleeps at most one slice more, and executes neither the
\* awaited event nor anything after it.
C10_GapCancelLatency ==
    cancel_at \in {"wait_loop", "slice"} =>
        /\ since_cancel <= chunk_size
        /\ trace = SubSeq(trace, 1, done_at_cancel)
        /\ Len(trace) = done_at_cancel

\* Cancellation came at the start of a full slice of a gap longer than two
\* slices, with a further iteration still to run; replay has ended.
C10_Witness ==
    /\ cancel_at = "slice"
    /\ rpc = "done"
    /\ since_cancel = chunk_size
    /\ wait_time > 2 * chunk_size
    /\ waited < wait_time
    /\ idx <= Len(rlog)
    /\ iteration + 1 < repeat_count

\* C11: when replay() ends it reports the number of iterations completed:
\* repeat_count when every iteration ran, the number of full passes made
\* (at most repeat_count) when cancellation was observed.
C11_ReportsIterationsCompleted ==
    rpc = "done" =>
        \E n \in 0..MaxRepeat :
            /\ returned = <<n>>
            /\ n <= repeat_count
            /\ cancel_at = "none" => n = repeat_count

\* The controller calls the spec gives an event: none for a key event whose
\* symbol names no key (and none for a pause).
CallsFor(e) ==
    IF e.type = "mouse_move" THEN <<Call("position", "")>>
    ELSE IF e.type \in {"key_press", "key_release"} /\ e.key = "a"
    THEN <<Call(e.type, "a")>>
    ELSE IF e.type \in {"key_press", "key_release"} /\ e.key = "Key.tab"
    THEN <<Call(e.type, "tab")>>
    ELSE <<>>

RECURSIVE CallsOf(_)
CallsOf(events) ==
    IF events = <<>> THEN <<>> ELSE CallsFor(Head(events)) \o CallsOf(Tail(events))

\* C13: a key event whose symbol is an unrecognized name injects nothing and
\* does not abort replay: the calls made are those of the other events, in
\* order; an uncancelled replay still makes every pass; and each event is
\* executed after the full gap from the event before it in the log, a
\* skipped one included.
C13_UnknownKeySkipped ==
    (repeat_count >= 1 /\ rpc # "init") =>
        /\ injected = CallsOf(trace)
        /\ (rpc = "done" /\ cancel_at = "none") =>
               trace = Passes(rlog, repeat_count)
        /\ rpc = "exec" =>
               /\ last_action_time = IF idx = 1 THEN 0 ELSE rlog[idx - 1].time
               /\ wait_time = rlog[idx].time - last_action_time
               /\ wait_time > 0 => waited = wait_time

\* Two passes over a log that opens with an unrecognized key and goes on,
\* after a gap, with an ordinary one ran to the end, uncancelled.
C13_Witness ==
    /\ rpc = "done"
    /\ cancel_at = "none"
    /\ repeat_count = 2
    /\ Len(rlog) = 2
    /\ rlog[1].key = "Key.bogus"
    /\ rlog[2].key = "a"
    /\ rlog[2].time > rlog[1].time
    /\ Len(injected) = 2

\* ---------------------------------------------------------------- GUI claims

\* C12: a replay requested with a negative repeat count or a negative
\* startup delay is rejected before the session starts: the GUI does not
\* enter Replaying, no replay thread and no listener is started, and
\* replay() is not entered (so the number is not taken as zero iterations).
C12_NegativeConfigRejected ==
    (repeat_arg < 0 \/ delay_arg < 0) =>
        /\ ~is_replaying
        /\ pth = "none"
        /\ ~replay_listener
        /\ rpc = "init"

\* A capture session is live from start_recording() until recording is
\* cleared; a replay from the entry of replay() until it returns or raises.
CaptureLive == recording
ReplayLive == pth = "running" /\ rpc \notin {"done", "raised"}

\* C14: start requests made while capturing or replaying are rejected, so a
\* capture session and a replay are never live at the same time.
C14_OneSessionAtATime == ~(CaptureLive /\ ReplayLive)

\* The state of the spec's state machine the GUI is in.
Mode ==
    IF is_recording THEN "Capturing"
    ELSE IF is_replaying THEN "Replaying"
    ELSE IF loaded_actions # <<>> THEN "ReplayPending"
    ELSE "Idle"

\* The toggle the spec gives a chord in the current mode.
ChordToggle(key) ==
    IF key \in {"q", "Q"}
    THEN IF Mode \in {"Idle", "ReplayPending"} THEN "start_recording"
         ELSE IF Mode = "Capturing" THEN "stop_recording"
         ELSE "none"
    ELSE IF key \in {"w", "W"}
    THEN IF Mode = "ReplayPending" THEN "start_replay"
         ELSE IF Mode = "Replaying" THEN "stop_replay"
         ELSE "none"
    ELSE "none"

\* C15: the hotkey listener requests a toggle only on the press of a
\* designated letter (either case) that arrives while its shift and alt
\* flags are both already set, and then the toggle of the current mode;
\* every other key event requests nothing.
C15_HotkeyToggle ==
    [][Len(typed') = Len(typed) + 1 =>
          LET e == typed'[Len(typed')]
              want == IF /\ e[1] = "press"
                         /\ hotkey_shift_pressed
                         /\ hotkey_alt_pressed
                      THEN ChordToggle(e[2])
                      ELSE "none"
          IN tkq' = IF want = "none" THEN tkq ELSE Append(tkq, want)]_vars

\* The play chord started a replay and, typed again, has requested its
\* cancellation.
C15_Witness ==
    /\ Len(typed) = 4
    /\ typed[4] = <<"press", "w">>
    /\ is_replaying
    /\ tkq = <<"stop_replay">>

\* C16: the record chord typed while capturing stops the capture with
\* auto-save: the stop it requests never asks the user whether to save.
C16_ChordStopAutoSaves == save_prompt # "chord"

\* C17: a key press on which the hotkey listener requested a toggle is
\* never appended to the log of the capture session.
C17_ChordKeysNotLogged == ~chord_logged

\* C18: once a capture has been stopped with its non-empty log saved and the
\* GUI has left Capturing, it is in ReplayPending: start_replay is accepted.
C18_SavedLogReplayPending ==
    (/\ cbLog # <<>>
     /\ ~recording
     /\ ~is_recording
     /\ ~is_replaying
     /\ tkq = <<>>) => StartReplayAccepted

\* C19: whenever the GUI is replaying, it is eventually back in
\* ReplayPending: is_replaying cleared, the loaded log retained.
C19_ReplayingEnds == is_replaying ~> StartReplayAccepted

\* A replay whose replay() raised has ended and the GUI is idle again.
C19_Witness ==
    /\ rpc = "raised"
    /\ pth = "none"
    /\ tkq = <<>>
    /\ StartReplayAccepted

\* C20: a cancellation requested once the GUI is replaying is not lost:
\* after the request replay() executes nothing more, beside the one event
\* whose injection was under way.
C20_CancellationNotLost ==
    cancel_at # "none" =>
        Len(trace) <= done_at_cancel + (IF cancel_at = "exec" THEN 1 ELSE 0)

\* ------------------------------------------------- cancellation in the loop

\* Where replay() is while it runs the event loop of an iteration.
EventLoopPcs == {"event_check", "wait_loop", "slice", "pre_exec", "exec"}

\* C21: once cancellation has been requested during the event loop, replay()
\* injects at most one further event, and that only if the request came
\* after the check right before the injection; it starts no further
\* iteration (and makes no pause); and the flag stays set until replay() has
\* returned.
C21_CancelStopsEventLoop ==
    /\ [](cancel_at \in EventLoopPcs =>
             /\ stop_replay
             /\ Len(trace) <= done_at_cancel + (IF cancel_at = "exec" THEN 1 ELSE 0))
    /\ [][(cancel_at \in EventLoopPcs /\ rpc # "done") =>
             /\ stop_replay'
             /\ ~(rpc = "iter_check" /\ rpc' = "event_check")
             /\ rpc' # "pause"]_vars

\* Cancellation came while the first event of a log of two was being
\* injected, with a further iteration still to run; replay() has returned
\* having injected that event and nothing else.
C21_Witness ==
    /\ cancel_at = "exec"
    /\ rpc = "done"
    /\ Len(rlog) = 2
    /\ idx = 2
    /\ iteration + 1 < repeat_count
    /\ Len(trace) = done_at_cancel + 1

\* ------------------------------------------------------ mode flags and poll

\* C22: the mode flags track the live sessions under the poll.  A run of
\* update_status leaves is_replaying set from start_replay setting it until
\* replay() has ended, replay_thread not yet in replay() included, and
\* is_recording set from start_recording setting it until the capture session
\* has ended, record_thread not yet in recorder.start_recording() included.
C22_ModeFlagsTrackSessions ==
    [][GuiUpdateStatus =>
          /\ (is_replaying /\ (pth = "spawned" \/ ReplayLive)) => is_replaying'
          /\ (is_recording /\ (rth = "spawned" \/ CaptureLive)) => is_recording'
      ]_vars

\* ------------------------------------------------------------ saving the log

\* C23: when F9 ends a capture session with a non-empty log, the log is
\* saved once: the caller that left its poll of recorder.recording does not
\* take the manual-save path when the callback saves (or has saved) the log.
C23_SavedExactlyOnce ==
    (cbCount = 1 /\ cbLog # <<>>) => phase # "manual_save"

\* ------------------------------------------------------- start of a session

\* C24: every call of start_recording, one on a recorder that was used
\* before included, leaves shift_pressed, alt_pressed, skipping_first_alt_tab
\* and first_alt_tab_skipped all false.
C24_FlagsResetAtSessionStart ==
    [][(phase # "started" /\ phase' = "started") =>
          /\ ~shift_pressed'
          /\ ~alt_pressed'
          /\ ~skipping_first_alt_tab'
          /\ ~first_alt_tab_skipped']_vars

\* ------------------------------------------------------- leaving replay()

\* C25: however replay() is left, by its end or by an error raised after its
\* entry (during the startup delay included), replaying is false and the
\* control-key listener is stopped.
C25_ExitCleansUp ==
    rpc \in {"done", "raised"} => (~replaying /\ ~replay_listener)

\* --------------------------------------------------------- the log's frame

\* C26: a step of a capture session leaves the log as it is, or appends one
\* event at its tail, or removes one key event of an alt variant and keeps
\* every other entry, in order; the removal happens on the step that sets
\* first_alt_tab_skipped, which is never cleared, so at most once.
C26_LogAppendOnly ==
    [][/\ \/ actions' = actions
          \/ /\ Len(actions') = Len(actions) + 1
             /\ SubSeq(actions', 1, Len(actions)) = actions
          \/ /\ ~first_alt_tab_skipped
             /\ first_alt_tab_skipped'
             /\ \E i \in 1..Len(actions) :
                   /\ actions[i].type \in {"key_press", "key_release"}
                   /\ HasAlt(actions[i].key)
                   /\ actions' = RemoveAt(actions, i)
       /\ first_alt_tab_skipped => first_alt_tab_skipped'
      ]_vars

\* The first Alt+Tab came with an ordinary key pressed between alt and Tab and
\* after a pointer move: the alt press was taken out from between the two.
C26_Witness ==
    /\ delivered = <<<<"press", "alt_l">>, <<"press", "a">>, <<"press", "tab">>>>
    /\ first_alt_tab_skipped
    /\ Len(actions) = 2
    /\ actions[1].type = "mouse_move"
    /\ actions[2].key = "a"

\* ------------------------------------------------------- time spent asleep

RECURSIVE SumSeq(_)
SumSeq(q) == IF q = <<>> THEN 0 ELSE Head(q) + SumSeq(Tail(q))

\* C27: a replay of one iteration with no startup delay and no cancellation
\* has slept, when it ends, for the timestamp of the log's last event in
\* all, and no single sleep of it was longer than chunk_size (100 ms).
C27_SleepsForLogDuration ==
    /\ \A i \in 1..Len(slices) : slices[i] <= chunk_size
    /\ (/\ rpc = "done"
        /\ cancel_at = "none"
        /\ repeat_count = 1
        /\ delay_before_start = 0) =>
           /\ startup_slept = 0
           /\ SumSeq(slices) = IF rlog = <<>> THEN 0 ELSE rlog[Len(rlog)].time

\* Such a replay of a log of two events, each after a gap that is not a
\* whole number of chunks.
C27_Witness ==
    /\ rpc = "done"
    /\ cancel_at = "none"
    /\ repeat_count = 1
    /\ delay_before_start = 0
    /\ Len(rlog) = 2
    /\ rlog[1].time > 0
    /\ rlog[2].time > rlog[1].time
    /\ Len(slices) >= 6
    /\ \E i \in 1..Len(slices) : slices[i] < chunk_size

\* ------------------------------------------------------- injecting a click

\* The controller calls the spec gives a click: the pointer is moved, then
\* the recorded button is pressed or released.
ClickCalls(e) ==
    <<Call("position", ""),
      Call(IF e.pressed THEN "mouse_press" ELSE "mouse_release",
           CHOOSE b \in Buttons : ButtonStr(b) = e.button)>>

RECURSIVE ClickCallsOf(_)
ClickCallsOf(events) ==
    IF events = <<>> THEN <<>>
    ELSE ClickCalls(Head(events)) \o ClickCallsOf(Tail(events))

\* C28: the calls replay makes for the clicks it has executed are, click
\* after click, a move of the pointer and then a press (pressed true) or a
\* release (pressed false) of the button that was recorded, whichever of
\* left, right and middle that is.
C28_ClickReplaysRecordedButton == injected = ClickCallsOf(trace)

\* ------------------------------------------------------ keys, round trip

\* C29: a key symbol the capture stored resolves at replay to the key that
\* was captured or to nothing, and resolving it raises no error: replay()
\* is never on its way out with an error, and each key event it executed
\* made no call or the call for a key whose stored symbol is the event's.
C29_KeySymbolsRoundTrip ==
    /\ rpc \notin {"error", "raised"}
    /\ \A i \in 1..Len(trace) :
          \/ ExecuteAction(trace[i]) = <<>>
          \/ \E k \in RoundTripKeys :
                /\ KeyStr(k) = trace[i].key
                /\ ExecuteAction(trace[i]) = <<Call(trace[i].type, k)>>

=============================================================================
